---- MODULE Spec2Model ----
(***************************************************************************)
(* One run of src/app.py, the Streamlit script "Real Income by State       *)
(* Explorer".  The script is executed top to bottom on every interaction;  *)
(* a run ends at st.stop(), at an uncaught exception, or at the last line. *)
(* The inputs of a run are the uploaded workbook (or none) and the widget  *)
(* selections; they are drawn from small sets.                             *)
(*                                                                         *)
(* Numbers: the sheet's values are integers here and the float arithmetic  *)
(* of pandas (mean, division, scaling) is modelled exactly, as fractions.   *)
(***************************************************************************)
EXTENDS Integers, Sequences, FiniteSets, TLC

\* ------------------------------------------------------------------ bounds
MaxRows == 3

\* ------------------------------------------------------- program constants
DefaultRangeStart == 2000
BaseYearMin == 1985
BaseYearMax == 2030
BaseYearDefault == 2017
StateCodeLen == 2
IndexScale == 100

VARIABLES
    uploaded_file,  \* the uploader's value: [present, headers, rows]
    pc,             \* the section of the script the run is at
    trace,          \* the sections completed so far in this run, in order
    error,          \* the uncaught exception that ended the run, or "none"
    shown,          \* the elements rendered on the page so far
    df,             \* load_data's result
    state_list,     \* options of the State selectbox
    state,          \* the selected state
    year_bounds,    \* <<year_min, year_max>>
    year_range,     \* the slider's default value
    base_year,      \* the "Deflation base year" input
    cpi_annual,     \* year -> [value, cpi_index]
    base_cpi,       \* mean CPI of the base year, or NaN
    income_topic,   \* the topic used for income, or "None"
    income,         \* the state income rows
    sel,            \* the selected state's series: a name the script never binds
    growth          \* the ranking table: bound only at lines 130-137

vars == <<uploaded_file, pc, trace, error, shown, df, state_list, state,
          year_bounds, year_range, base_year, cpi_annual, base_cpi,
          income_topic, income, sel, growth>>

\* ------------------------------------------------------------- the workbook
\* Cells of the "date" column: a date, a text that is no date, or blank.
DateCell(y, m) == [kind |-> "date", y |-> y, m |-> m]
TextCell == [kind |-> "text", y |-> 0, m |-> 0]
BlankCell == [kind |-> "blank", y |-> 0, m |-> 0]

\* Cells of the "value" column: a number or blank (NaN).
Num(v) == [na |-> FALSE, v |-> v]
NaN == [na |-> TRUE, v |-> 0]

RawRow(d, g, l, s, t, v) ==
    [date |-> d, geo |-> g, geo_level |-> l, series |-> s, topic |-> t, value |-> v]

\* The rows a sheet is made of.
SheetRows ==
    { RawRow(DateCell(2017, 1), <<"U", "S">>, "national", "CPIAUCSL", "cpi", Num(2)),
      RawRow(DateCell(2017, 7), <<"U", "S">>, "national", "CPIAUCSL", "cpi", Num(4)),
      RawRow(DateCell(2017, 3), <<"U", "S">>, "national", "CPIAUCSL", "cpi", Num(-2)),
      RawRow(DateCell(2018, 1), <<"U", "S">>, "national", "CPIAUCSL", "cpi", Num(4)),
      RawRow(DateCell(2017, 1), <<"M", "D">>, "state", "CPIAUCSL", "cpi", Num(6)),
      RawRow(DateCell(2017, 1), <<"m", "d">>, "state", "PCPI", "income_per_capita", Num(4)),
      RawRow(DateCell(2018, 1), <<"M", "D">>, "state", "PCPI", "income_per_capita", Num(6)),
      RawRow(DateCell(1995, 6), <<"T", "X">>, "state", "MHI", "Median_Income", Num(2)),
      RawRow(DateCell(2017, 1), <<"T", "E", "X">>, "state", "PINC", "Total Income", Num(4)),
      RawRow(TextCell, <<"M", "D">>, "state", "PCPI", "income_per_capita", Num(4)),
      RawRow(BlankCell, <<"U", "S">>, "national", "CPIAUCSL", "cpi", Num(2)),
      RawRow(DateCell(2018, 1), <<"T", "X">>, "state", "PCPI", "income_per_capita", NaN) }

\* The header row as typed in the sheet, and the columns the script expects.
SheetHeaders == {" Date", "GEO", "geo_level", "Series ", "Topic", "value"}
ExpectedColumns == {"date", "geo", "geo_level", "series", "topic", "value"}

Files ==
    { [present |-> TRUE, headers |-> h, rows |-> r] :
        h \in {SheetHeaders} \cup {SheetHeaders \ {x} : x \in SheetHeaders},
        r \in UNION {[1..n -> SheetRows] : n \in 0..MaxRows} }

NoFile == [present |-> FALSE, headers |-> {}, rows |-> <<>>]

\* ------------------------------------------------------------- load_data
\* c.strip().lower() on a header
StripLower(h) ==
    CASE h = " Date" -> "date"
      [] h = "GEO" -> "geo"
      [] h = "Series " -> "series"
      [] h = "Topic" -> "topic"
      [] OTHER -> h

Columns(file) == {StripLower(h) : h \in file.headers}

NaT == [nat |-> TRUE, y |-> 0, m |-> 0]

\* pd.to_datetime(..., errors="coerce")
to_datetime(cell) ==
    IF cell.kind = "date" THEN [nat |-> FALSE, y |-> cell.y, m |-> cell.m] ELSE NaT

UpperChar(c) ==
    CASE c = "m" -> "M"
      [] c = "d" -> "D"
      [] OTHER -> c

\* .str.upper()
upper(s) == [i \in 1..Len(s) |-> UpperChar(s[i])]

Converted(r) ==
    [date |-> to_datetime(r.date), geo |-> upper(r.geo), geo_level |-> r.geo_level,
     series |-> r.series, topic |-> r.topic, value |-> r.value]

\* Mutant of NotNa: dropna with subset=["date"] only.
NotNaDateOnly(r) == ~r.date.nat

NotNa(r) == ~r.date.nat /\ ~r.value.na

\* df.dropna(subset=["date", "value"])
dropna(rows) == SelectSeq(rows, NotNa)

WithYear(r) ==
    [date |-> r.date, geo |-> r.geo, geo_level |-> r.geo_level, series |-> r.series,
     topic |-> r.topic, value |-> r.value, year |-> r.date.y]

\* The columns load_data indexes; one that is missing raises KeyError.
LoadColumns == {"date", "geo", "series", "topic", "value"}

load_data(file) ==
    LET kept == dropna([i \in 1..Len(file.rows) |-> Converted(file.rows[i])])
    IN  [i \in 1..Len(kept) |-> WithYear(kept[i])]

\* A name of the script that no executed line has bound
Unbound == [bound |-> FALSE]

\* ------------------------------------------------------------- the script
\* Lines 13-20: the uploader; without a file the run stops.
Upload ==
    /\ pc = "upload"
    /\ IF ~uploaded_file.present
       THEN /\ shown' = shown \cup {"info: please upload"}
            /\ pc' = "stopped"
            /\ trace' = trace
       ELSE /\ shown' = shown
            /\ pc' = "load"
            /\ trace' = Append(trace, "upload")
    /\ UNCHANGED <<uploaded_file, error, df, state_list, state, year_bounds,
                   year_range, base_year, cpi_annual, base_cpi, income_topic,
                   income, sel, growth>>

\* Mutant of LoadData: load_data called above the uploaded_file check.
LoadDataFirst ==
    /\ pc = "upload"
    /\ uploaded_file.present
    /\ IF LoadColumns \subseteq Columns(uploaded_file)
       THEN /\ df' = load_data(uploaded_file)
            /\ pc' = "datacheck"
            /\ error' = error
            /\ trace' = Append(trace, "load")
       ELSE /\ df' = df
            /\ pc' = "failed"
            /\ error' = "KeyError"
            /\ trace' = trace
    /\ UNCHANGED <<uploaded_file, shown, state_list, state, year_bounds,
                   year_range, base_year, cpi_annual, base_cpi, income_topic,
                   income, sel, growth>>

\* Lines 25-40: load_data(uploaded_file).
LoadData ==
    /\ pc = "load"
    /\ IF LoadColumns \subseteq Columns(uploaded_file)
       THEN /\ df' = load_data(uploaded_file)
            /\ pc' = "datacheck"
            /\ error' = error
            /\ trace' = Append(trace, "load")
       ELSE /\ df' = df
            /\ pc' = "failed"
            /\ error' = "KeyError"
            /\ trace' = trace
    /\ UNCHANGED <<uploaded_file, shown, state_list, state, year_bounds,
                   year_range, base_year, cpi_annual, base_cpi, income_topic,
                   income, sel, growth>>

\* df["topic"].unique(): the values in order of first appearance
RECURSIVE unique(_)
unique(s) ==
    IF s = <<>> THEN <<>>
    ELSE LET u == unique(SubSeq(s, 1, Len(s) - 1))
             x == s[Len(s)]
         IN  IF \E i \in 1..Len(u) : u[i] = x THEN u ELSE Append(u, x)

Topics(rows) == unique([i \in 1..Len(rows) |-> rows[i].topic])

Range(s) == {s[i] : i \in 1..Len(s)}

\* Lines 41-48: the data check.  df["geo_level"] raises KeyError when the
\* column is missing; the income_per_capita check only reports.
DataCheck ==
    /\ pc = "datacheck"
    /\ IF "geo_level" \in Columns(uploaded_file)
       THEN /\ shown' = shown \cup {"subheader: data check", "topics", "geo levels"}
                        \cup (IF "income_per_capita" \in Range(Topics(df))
                              THEN {"success: income_per_capita is present"}
                              ELSE {"error: income_per_capita is NOT present"})
            /\ pc' = "sidebar"
            /\ error' = error
            /\ trace' = Append(trace, "datacheck")
       ELSE /\ shown' = shown \cup {"subheader: data check", "topics"}
            /\ pc' = "failed"
            /\ error' = "KeyError"
            /\ trace' = trace
    /\ UNCHANGED <<uploaded_file, df, state_list, state, year_bounds,
                   year_range, base_year, cpi_annual, base_cpi, income_topic,
                   income, sel, growth>>

IsStateRow(r) == r.geo_level = "state" /\ Len(r.geo) = StateCodeLen

\* Lines 55-57; the options are kept as a set, their sorted order only
\* decides how the selectbox lists them.
StateList(rows) == {r.geo : r \in {x \in Range(rows) : IsStateRow(x)}}

StateOptions(rows) == IF StateList(rows) # {} THEN StateList(rows) ELSE {<<"M", "D">>}

SetMin(S) == CHOOSE x \in S : \A y \in S : x <= y
SetMax(S) == CHOOSE x \in S : \A y \in S : x >= y
Max2(a, b) == IF a >= b THEN a ELSE b

Years(rows) == {r.year : r \in Range(rows)}

\* Line 62: the default value handed to the slider
DefaultYearRange(ymin, ymax) == <<Max2(ymin, DefaultRangeStart), ymax>>

\* Lines 53-62: the sidebar.  int(df["year"].min()) of an empty table is
\* int(NaN), a ValueError.  The slider is left at its default.
Sidebar ==
    /\ pc = "sidebar"
    /\ state_list' = StateList(df)
    /\ \E s \in StateOptions(df) : state' = s
    /\ IF df # <<>>
       THEN /\ year_bounds' = <<SetMin(Years(df)), SetMax(Years(df))>>
            /\ year_range' = DefaultYearRange(SetMin(Years(df)), SetMax(Years(df)))
            /\ pc' = "cpi"
            /\ error' = error
            /\ trace' = Append(trace, "sidebar")
       ELSE /\ year_bounds' = year_bounds
            /\ year_range' = year_range
            /\ pc' = "failed"
            /\ error' = "ValueError"
            /\ trace' = trace
    /\ UNCHANGED <<uploaded_file, shown, df, base_year, cpi_annual, base_cpi,
                   income_topic, income, sel, growth>>

\* ------------------------------------------------------------ CPI deflator
\* Fractions num/den stand for the floats of the script.
Frac(n, d) == [num |-> n, den |-> d]
FracDiv(a, b) == Frac(a.num * b.den, a.den * b.num)
FracScale(a, k) == Frac(a.num * k, a.den)
FracEq(a, b) == a.num * b.den = b.num * a.den
NaNFrac == [na |-> TRUE, num |-> 0, den |-> 1]
NotNaN(f) == [na |-> FALSE, num |-> f.num, den |-> f.den]

RECURSIVE SumValues(_)
SumValues(rows) ==
    IF rows = <<>> THEN 0 ELSE rows[1].value.v + SumValues(Tail(rows))

\* Mutant of Mean: the annual total in place of the annual mean.
MeanAsSum(rows) == Frac(SumValues(rows), 1)

\* Series.mean()
Mean(rows) == Frac(SumValues(rows), Len(rows))

\* Line 69: the national CPIAUCSL rows
IsCpiRow(r) == r.geo_level = "national" /\ r.series = "CPIAUCSL"

CpiRows(rows) == SelectSeq(rows, IsCpiRow)

OfYear(rows, y) ==
    LET InYear(r) == r.year = y IN SelectSeq(rows, InYear)

\* Line 72: cpi.groupby("year")["value"].mean()
AnnualMean(cpi) == [y \in Years(cpi) |-> [value |-> Mean(OfYear(cpi, y))]]

\* Line 73: the mean over the base year's entry of cpi_annual, NaN without one
BaseCpi(annual, by) ==
    IF by \in DOMAIN annual THEN NotNaN(annual[by].value) ELSE NaNFrac

\* Mutant of InvalidBase: the guard without its `== 0` test.
InvalidBaseNaOnly(b) == b.na

\* Line 75: pd.isna(base_cpi) or base_cpi == 0
InvalidBase(b) == b.na \/ b.num = 0

\* Line 79: (cpi_annual["value"] / base_cpi) * 100
CpiIndex(value, b) == FracScale(FracDiv(value, b), IndexScale)

WithIndex(annual, b) ==
    [y \in DOMAIN annual |->
        [value |-> annual[y].value, cpi_index |-> CpiIndex(annual[y].value, b)]]

\* The base years tried, within the number_input's range
BaseYearChoices ==
    {y \in {BaseYearMin, BaseYearDefault, BaseYearDefault + 1} :
        BaseYearMin <= y /\ y <= BaseYearMax}

\* Lines 67-79: the base year, the annual CPI and its index; an invalid base
\* year stops the run.
CpiDeflator ==
    /\ pc = "cpi"
    /\ \E by \in BaseYearChoices :
        LET annual == AnnualMean(CpiRows(df))
            b == BaseCpi(annual, by)
        IN  /\ base_year' = by
            /\ base_cpi' = b
            /\ IF InvalidBase(b)
               THEN /\ cpi_annual' = annual
                    /\ shown' = shown \cup {"warning: Invalid CPI base year selected."}
                    /\ pc' = "stopped"
                    /\ trace' = trace
               ELSE /\ cpi_annual' = WithIndex(annual, b)
                    /\ shown' = shown
                    /\ pc' = "income"
                    /\ trace' = Append(trace, "cpi_index")
    /\ UNCHANGED <<uploaded_file, error, df, state_list, state, year_bounds,
                   year_range, income_topic, income, sel, growth>>

\* ------------------------------------------------------------- income data
\* str(t).lower()
Lower(t) ==
    CASE t = "Median_Income" -> "median_income"
      [] t = "Total Income" -> "total income"
      [] OTHER -> t

\* "income" in str(t).lower()
HasIncome(t) == Lower(t) \in {"income_per_capita", "median_income", "total income"}

\* Line 84
IncomeTopics(rows) == SelectSeq(Topics(rows), HasIncome)

\* Mutant of IncomeTopic: no fallback to another income topic.
IncomeTopicNoFallback(rows) ==
    IF "income_per_capita" \in Range(Topics(rows)) THEN "income_per_capita" ELSE "None"

\* Lines 85-90
IncomeTopic(rows) ==
    IF "income_per_capita" \in Range(Topics(rows)) THEN "income_per_capita"
    ELSE IF IncomeTopics(rows) # <<>> THEN IncomeTopics(rows)[1]
    ELSE "None"

\* Line 96
IncomeRows(rows, topic) ==
    LET Keep(r) == r.topic = topic /\ IsStateRow(r) IN SelectSeq(rows, Keep)

\* Lines 84-96: the income topic and the state income rows; without an
\* income topic the run stops.
IncomeData ==
    /\ pc = "income"
    /\ income_topic' = IncomeTopic(df)
    /\ IF IncomeTopic(df) = "None"
       THEN /\ income' = income
            /\ shown' = shown \cup {"error: This dataset doesn't include income data."}
            /\ pc' = "stopped"
            /\ trace' = trace
       ELSE /\ income' = IncomeRows(df, IncomeTopic(df))
            /\ shown' = shown
            /\ pc' = "display"
            /\ trace' = Append(trace, "income")
    /\ UNCHANGED <<uploaded_file, error, df, state_list, state, year_bounds,
                   year_range, base_year, cpi_annual, base_cpi, sel, growth>>

\* ----------------------------------------------------------------- display
\* Lines 101-103: the subheader is written, then `sel.empty` reads a name
\* the script never binds: NameError.  Lines 104-156 are never reached.
Display ==
    /\ pc = "display"
    /\ shown' = shown \cup {"subheader: Nominal vs Real Income"}
    /\ pc' = "failed"
    /\ error' = "NameError"
    /\ trace' = Append(trace, "display")
    /\ UNCHANGED <<uploaded_file, df, state_list, state, year_bounds, year_range,
                   base_year, cpi_annual, base_cpi, income_topic, income, sel, growth>>

\* ------------------------------------------------------------------ Init
Init ==
    /\ uploaded_file \in {NoFile} \cup Files
    /\ pc = "upload"
    /\ trace = <<>>
    /\ error = "none"
    /\ shown = {}
    /\ df = <<>>
    /\ state_list = {}
    /\ state = <<>>
    /\ year_bounds = <<0, 0>>
    /\ year_range = <<0, 0>>
    /\ base_year = 0
    /\ cpi_annual = <<>>
    /\ base_cpi = NaNFrac
    /\ income_topic = "None"
    /\ income = <<>>
    /\ sel = Unbound
    /\ growth = Unbound

Next ==
    \/ Upload
    \/ LoadData
    \/ DataCheck
    \/ Sidebar
    \/ CpiDeflator
    \/ IncomeData
    \/ Display

Spec == Init /\ [][Next]_vars

\* ================================================================== claims
Done(step) == \E i \in 1..Len(trace) : trace[i] = step
Ended == pc \in {"stopped", "failed", "done"}
Outputs == {"chart", "top 10 table", "bottom 10 table", "download"}
\* what st.info, st.warning and st.error can write
Messages ==
    {"info: please upload", "error: income_per_capita is NOT present",
     "warning: Invalid CPI base year selected.",
     "error: This dataset doesn't include income data.",
     "warning: No income data for selected state."}

\* The claims restate what the script computes from the uploaded sheet and
\* the loaded table by index sets, apart from the operators of the script.
RECURSIVE SumAt(_, _)
SumAt(rows, S) ==
    IF S = {} THEN 0
    ELSE LET i == CHOOSE x \in S : TRUE IN rows[i].value.v + SumAt(rows, S \ {i})

CpiAt(y) ==
    {i \in 1..Len(df) : /\ df[i].geo_level = "national"
                        /\ df[i].series = "CPIAUCSL"
                        /\ df[i].date.y = y}
CpiYears == {y \in {df[i].date.y : i \in 1..Len(df)} : CpiAt(y) # {}}

SheetKept == {i \in 1..Len(uploaded_file.rows) :
                 /\ uploaded_file.rows[i].date.kind = "date"
                 /\ ~uploaded_file.rows[i].value.na}
RankKept(i) == Cardinality({j \in SheetKept : j <= i})
\* C8: after load_data every row has a date and a value and its year is the
\* calendar year of its date; the rows of the sheet whose date does not parse
\* or whose value is missing are dropped, every other row is kept, in order.
C8_LoadDataRows ==
    Done("load") =>
        /\ \A k \in 1..Len(df) :
              ~df[k].date.nat /\ ~df[k].value.na /\ df[k].year = df[k].date.y
        /\ Len(df) = Cardinality(SheetKept)
        /\ \A i \in SheetKept :
              LET r == uploaded_file.rows[i]
                  d == df[RankKept(i)]
              IN  /\ d.date.y = r.date.y /\ d.date.m = r.date.m
                  /\ d.year = r.date.y
                  /\ d.value = r.value
                  /\ d.series = r.series /\ d.topic = r.topic
                  /\ d.geo_level = r.geo_level
C8_Witness ==
    /\ Done("load")
    /\ Len(df) >= 1
    /\ \E i \in 1..Len(uploaded_file.rows) : uploaded_file.rows[i].date.kind # "date"
    /\ \E i \in 1..Len(uploaded_file.rows) : uploaded_file.rows[i].value.na

\* C1: once the base-year guard has passed, for every year y with national
\* CPIAUCSL observations cpi_index(y) is (mean CPI of y) / (mean CPI of the
\* base year) * 100, and cpi_index(base year) is exactly 100.
C1_CpiNormalization ==
    Done("cpi_index") =>
        /\ DOMAIN cpi_annual = CpiYears
        /\ base_year \in CpiYears
        /\ \A y \in CpiYears :
              LET idx == cpi_annual[y].cpi_index
                  sy == SumAt(df, CpiAt(y))
                  cy == Cardinality(CpiAt(y))
                  sb == SumAt(df, CpiAt(base_year))
                  cb == Cardinality(CpiAt(base_year))
              IN  /\ idx.den # 0
                  /\ idx.num * (cy * sb) = (sy * cb * 100) * idx.den
        /\ cpi_annual[base_year].cpi_index.num = 100 * cpi_annual[base_year].cpi_index.den
C1_Witness ==
    /\ Done("cpi_index")
    /\ Cardinality(CpiAt(base_year)) = 2
    /\ \E y \in CpiYears : y # base_year /\ Cardinality(CpiAt(y)) = 1

BaseSelected == base_year # 0
\* C9: when the selected base year has no national CPIAUCSL observation, or
\* the mean of its observations is 0, the run shows the warning and stops;
\* wherever cpi_index has been computed the base-year mean is defined and
\* non-zero and no index has a zero denominator.
C9_BaseYearGuard ==
    /\ (BaseSelected /\ (CpiAt(base_year) = {} \/ SumAt(df, CpiAt(base_year)) = 0)) =>
          /\ "warning: Invalid CPI base year selected." \in shown
          /\ pc = "stopped"
          /\ ~Done("cpi_index")
    /\ Done("cpi_index") =>
          /\ CpiAt(base_year) # {}
          /\ SumAt(df, CpiAt(base_year)) # 0
          /\ ~base_cpi.na /\ base_cpi.num # 0 /\ base_cpi.den # 0
          /\ \A y \in DOMAIN cpi_annual : cpi_annual[y].cpi_index.den # 0
C9_Witness ==
    /\ BaseSelected
    /\ CpiAt(base_year) # {}
    /\ SumAt(df, CpiAt(base_year)) = 0
    /\ pc = "stopped"

\* C10: the default year range handed to the slider is a sub-range of the
\* data's years, year_min <= lower <= upper <= year_max, also when all years
\* are before 2000.
C10_DefaultRangeValid ==
    Done("sidebar") =>
        /\ year_bounds[1] <= year_range[1]
        /\ year_range[1] <= year_range[2]
        /\ year_range[2] <= year_bounds[2]

MissingColumn == uploaded_file.present /\ ~(ExpectedColumns \subseteq Columns(uploaded_file))
\* C6: a sheet that lacks an expected column ends the run in the aborted
\* state, with a message and no output, never in an uncaught failure.
C6_MissingColumnCaught ==
    (MissingColumn /\ Ended) =>
        /\ pc = "stopped"
        /\ error = "none"
        /\ shown \cap Outputs = {}
        /\ shown \cap Messages # {}

\* The runs in which a file is uploaded, the base-year CPI is valid, an income
\* topic exists and the selected state has income rows.
SelectedRows == {i \in 1..Len(income) : income[i].geo = state}
GuardsPassed ==
    /\ uploaded_file.present
    /\ Done("cpi_index")
    /\ Done("income")
    /\ SelectedRows # {}

\* value / (cpi_index / 100) of income row i
Deflated(i) ==
    LET idx == cpi_annual[income[i].year].cpi_index
    IN  Frac(income[i].value.v * 100 * idx.den, idx.num)

\* C2: every state income row that is charted, ranked or exported carries
\* real_income = value / (cpi_index / 100), cpi_index being that of the row's
\* year.
C2_RealIncome ==
    (Ended /\ GuardsPassed) =>
        \A i \in 1..Len(income) :
            income[i].year \in DOMAIN cpi_annual =>
                /\ "real_income" \in DOMAIN income[i]
                /\ FracEq(income[i].real_income, Deflated(i))

GeoRows(g) == {i \in 1..Len(income) : income[i].geo = g}
Earliest(g) == CHOOSE i \in GeoRows(g) : \A j \in GeoRows(g) : income[i].year <= income[j].year
Latest(g) == CHOOSE i \in GeoRows(g) : \A j \in GeoRows(g) : income[i].year >= income[j].year
GrowthPct(g) ==
    LET a == Deflated(Earliest(g))
        b == Deflated(Latest(g))
    IN  Frac((b.num * a.den - a.num * b.den) * 100, b.den * a.num)
\* C3: for every state with at least two income observations
\* real_income_growth_pct = (real income of the latest year / real income of
\* the earliest year - 1) * 100.
C3_GrowthRanking ==
    (Ended /\ GuardsPassed) =>
        \A g \in {income[i].geo : i \in 1..Len(income)} :
            Cardinality(GeoRows(g)) >= 2 =>
                /\ growth.bound
                /\ g \in DOMAIN growth.pct
                /\ FracEq(growth.pct[g], GrowthPct(g))

\* C4: every run in which a file is uploaded, the base-year CPI is valid, an
\* income topic exists and the selected state has income rows runs to the end
\* and produces the chart, both tables and the download, whose rows are the
\* selected state's income series.
C4_AllOutputs ==
    (Ended /\ GuardsPassed) =>
        /\ pc = "done"
        /\ error = "none"
        /\ Outputs \subseteq shown
        /\ sel.bound
        /\ LET OfState(r) == r.geo = state IN sel.rows = SelectSeq(income, OfState)

Before(a, b) ==
    \A j \in 1..Len(trace) : trace[j] = b => \E i \in 1..(j - 1) : trace[i] = a
NoIncomePerCapita == \A i \in 1..Len(df) : df[i].topic # "income_per_capita"
IncomeLike == {i \in 1..Len(df) : HasIncome(df[i].topic)}
IncomeDecided == Done("cpi_index") /\ pc \notin {"cpi", "income"}
====
